---- MODULE Spec2Model ----
(***************************************************************************)
(* Model of src/main.py: the BaraBild image-search redirect service.       *)
(*                                                                         *)
(* The service keeps an on-disk cache (one JSON file per query under       *)
(* ./cache), looks a query up in it, and on a miss fetches the upstream    *)
(* search page, stores it and extracts the first picture's image URL.     *)
(*                                                                         *)
(* Two specifications share the same state:                                *)
(*   Spec      one request at a time; every handler is one atomic action.  *)
(*   ConcSpec  several requests in flight; every file-system call of       *)
(*             load_from_cache / save_to_cache is one step.                *)
(***************************************************************************)
EXTENDS Integers, Sequences, FiniteSets, TLC

(***************************************************************************)
(* Bounds of the model and constants of the program.                       *)
(* Time is counted in hours.                                               *)
(***************************************************************************)
CACHE_EXPIRY == 24

TickStep == 12

MaxTime == 48

CACHE_DIR == "./cache"

Queries == {"cats", "dogs"}

(***************************************************************************)
(* Payloads.  An HTML document is the sequence of its elements in          *)
(* document order; an element has a tag and the img elements below it; an  *)
(* img is the set of its <<attribute, value>> pairs.  The empty sequence   *)
(* is the empty string.                                                    *)
(***************************************************************************)
Img(attrs) == [attrs |-> attrs]

Elem(tag, imgs) == [tag |-> tag, imgs |-> imgs]

HtmlEmpty == <<>>

HtmlNoPicture == <<Elem("div", <<Img({<<"src", "https://img/banner.jpg">>})>>)>>

HtmlNoImg == <<Elem("div", <<>>), Elem("picture", <<>>)>>

HtmlNoSrc == <<Elem("picture", <<Img({<<"alt", "a cat">>})>>)>>

HtmlCats ==
    << Elem("div", <<Img({<<"src", "https://img/logo.png">>})>>),
       Elem("picture", <<Img({<<"alt", "cat">>, <<"src", "https://img/cats1.jpg">>}),
                         Img({<<"src", "https://img/cats1b.jpg">>})>>),
       Elem("picture", <<Img({<<"src", "https://img/cats2.jpg">>})>>) >>

HtmlDogs == <<Elem("picture", <<Img({<<"src", "https://img/dogs1.jpg">>})>>)>>

Payloads == {HtmlEmpty, HtmlNoPicture, HtmlNoImg, HtmlNoSrc, HtmlCats, HtmlDogs}

(***************************************************************************)
(* Results of calls.  exc = "none" is a normal return; any other value is  *)
(* the class of the exception the call raises.                             *)
(***************************************************************************)
NoException == "none"

(***************************************************************************)
(* parse_html_for_image: soup.find_all('picture'), images[0],              *)
(* image.find('img')['src'].                                               *)
(***************************************************************************)
find_all(html, tag) == SelectSeq(html, LAMBDA e : e.tag = tag)

HasAttr(img, name) == \E a \in img.attrs : a[1] = name

GetAttr(img, name) == (CHOOSE a \in img.attrs : a[1] = name)[2]

parse_html_for_image(html_content) ==
    LET images == find_all(html_content, "picture")
    IN  IF Len(images) = 0
        THEN [exc |-> "IndexError", link |-> ""]
        ELSE LET image == images[1]
             IN  IF Len(image.imgs) = 0
                 THEN [exc |-> "TypeError", link |-> ""]
                 ELSE IF ~HasAttr(image.imgs[1], "src")
                      THEN [exc |-> "KeyError", link |-> ""]
                      ELSE [exc |-> NoException,
                            link |-> GetAttr(image.imgs[1], "src")]

(***************************************************************************)
(* The cache directory.  disk.dir says whether ./cache exists; disk.files  *)
(* maps the path of every existing file to its content.  A file's content  *)
(* is the sequence of the chunks json.dump wrote: the opening brace, one   *)
(* <<key, value>> chunk per dictionary item, the closing brace.            *)
(***************************************************************************)
\* A digest that does not depend on the query.
md5_ignoring_query(query) == "d41d8cd98f00b204e9800998ecf8427e"

\* hashlib.md5(query.encode()).hexdigest() (line 25).
md5(query) ==
    CASE query = "cats" -> "0832c1202da8d382318e329a7c133ea0"
      [] query = "dogs" -> "d28d2d3560fa76f0dbb1a452f8c38169"
      [] OTHER          -> "75c73f175a85cee384f32a5608eb67d1"

\* A file name that does not depend on the query.
get_cache_path_fixed(query) == <<CACHE_DIR, md5(""), ".html">>

get_cache_path(query) == <<CACHE_DIR, md5(query), ".html">>

exists(disk, path) == disk.dir /\ path \in DOMAIN disk.files

ensure_cache_dir(disk) ==
    IF ~disk.dir THEN [disk EXCEPT !.dir = TRUE] ELSE disk

OpenBrace == <<"{">>

CloseBrace == <<"}">>

Nul == <<"NUL">>

\* datetime.isoformat / datetime.fromisoformat: a date and an hour of day.
\* (isoformat_date_only: the stamp of date.isoformat(), the time of day lost.)
isoformat_date_only(t) == <<t \div 24, 0>>

isoformat(t) == <<t \div 24, t % 24>>

fromisoformat(s) ==
    IF s[1] >= 0 /\ s[2] \in 0..23
    THEN [exc |-> NoException, time |-> s[1] * 24 + s[2]]
    ELSE [exc |-> "ValueError", time |-> 0]

\* json.dump of a dictionary given as the sequence of its items.
json_dump(items) == <<OpenBrace>> \o items \o <<CloseBrace>>

IsItem(chunk) == Len(chunk) = 2

\* json.load: the items of the object, or JSONDecodeError.
json_load(content) ==
    IF /\ Len(content) >= 2
       /\ content[1] = OpenBrace
       /\ content[Len(content)] = CloseBrace
       /\ \A i \in 2..(Len(content) - 1) : IsItem(content[i])
    THEN [exc |-> NoException, items |-> SubSeq(content, 2, Len(content) - 1)]
    ELSE [exc |-> "JSONDecodeError", items |-> <<>>]

HasKey(items, key) == \E i \in 1..Len(items) : items[i][1] = key

GetKey(items, key) ==
    LET last == CHOOSE i \in 1..Len(items) :
                    /\ items[i][1] = key
                    /\ \A j \in (i + 1)..Len(items) : items[j][1] # key
    IN  items[last][2]

\* A writer and a reader that disagree on the name of the payload field.
cache_data_wrong_key(now, html_content) ==
    << <<"timestamp", isoformat(now)>>, <<"content", html_content>> >>

cache_data(now, html_content) ==
    << <<"timestamp", isoformat(now)>>, <<"html", html_content>> >>

write_file(disk, path, content) ==
    [disk EXCEPT !.files = (path :> content) @@ disk.files]

\* The expired file is left in place.
remove_file_omitted(disk, path) == disk

remove_file(disk, path) ==
    [disk EXCEPT !.files = [p \in DOMAIN disk.files \ {path} |-> disk.files[p]]]

\* now - cache_time > CACHE_EXPIRY (line 50), and two slips of it.
expired_at_window(now, cache_time) == now - cache_time >= CACHE_EXPIRY

expired_in_days(now, cache_time) == now - cache_time > CACHE_EXPIRY * 24

expired(now, cache_time) == now - cache_time > CACHE_EXPIRY

save_to_cache(disk, query, html_content, now) ==
    LET d1         == ensure_cache_dir(disk)
        cache_path == get_cache_path(query)
    IN  write_file(d1, cache_path, json_dump(cache_data(now, html_content)))

\* Lines 45-50 and 54 on the content read from the file: the exception
\* raised, or whether the entry is expired, or the payload returned.
Entry(exc, isExpired, html) == [exc |-> exc, expired |-> isExpired, html |-> html]

read_entry(content, now) ==
    LET parsed == json_load(content)
    IN  IF parsed.exc # NoException
        THEN Entry(parsed.exc, FALSE, <<>>)
        ELSE IF ~HasKey(parsed.items, "timestamp")
        THEN Entry("KeyError", FALSE, <<>>)
        ELSE
        LET cache_time == fromisoformat(GetKey(parsed.items, "timestamp"))
        IN  IF cache_time.exc # NoException
            THEN Entry(cache_time.exc, FALSE, <<>>)
            ELSE IF expired(now, cache_time.time)
            THEN Entry(NoException, TRUE, <<>>)
            ELSE IF ~HasKey(parsed.items, "html")
            THEN Entry("KeyError", FALSE, <<>>)
            ELSE Entry(NoException, FALSE, GetKey(parsed.items, "html"))

\* The value load_from_cache returns or the exception it raises, with the
\* disk it leaves.  isNone marks the return value None.
Loaded(exc, isNone, html, disk) ==
    [exc |-> exc, isNone |-> isNone, html |-> html, disk |-> disk]

load_from_cache(disk, query, now) ==
    LET cache_path == get_cache_path(query)
    IN  IF ~exists(disk, cache_path)
        THEN Loaded(NoException, TRUE, <<>>, disk)
        ELSE
        LET entry == read_entry(disk.files[cache_path], now)
        IN  IF entry.exc # NoException
            THEN Loaded(entry.exc, TRUE, <<>>, disk)
            ELSE IF entry.expired
            THEN Loaded(NoException, TRUE, <<>>, remove_file(disk, cache_path))
            ELSE Loaded(NoException, FALSE, entry.html, disk)

(***************************************************************************)
(* The upstream fetcher: requests.get and response.raise_for_status.       *)
(* status 0 stands for a transport failure (no response at all).           *)
(***************************************************************************)
Response(status, text) == [status |-> status, text |-> text]

requests_get(resp) ==
    IF resp.status = 0 THEN "ConnectionError" ELSE NoException

\* The status of the response is never looked at.
raise_for_status_omitted(resp) == NoException

raise_for_status(resp) ==
    IF resp.status >= 400 /\ resp.status < 600 THEN "HTTPError" ELSE NoException

IsHTTPException(exc) == exc = "HTTPException"

IsRequestException(exc) ==
    exc \in {"RequestException", "ConnectionError", "HTTPError", "Timeout"}

(***************************************************************************)
(* What the caller of GET /search/{query} receives.  An exception that no  *)
(* except clause of search_image catches leaves the handler ("Unhandled"). *)
(***************************************************************************)
RedirectResponse(url) ==
    [kind |-> "RedirectResponse", status |-> 307, url |-> url,
     detail |-> <<>>, exc |-> NoException]

HTTPException(status, e) ==
    [kind |-> "HTTPException", status |-> status, url |-> "",
     detail |-> <<"Error fetching image", e>>, exc |-> NoException]

Unhandled(exc) ==
    [kind |-> "Unhandled", status |-> 500, url |-> "",
     detail |-> <<>>, exc |-> exc]

\* Line 76 as a test against None instead of a truth test.
Truthy_is_not_none(loaded) == ~loaded.isNone

\* Line 76, "if cached_html:": None and the empty string are both false.
Truthy(loaded) == ~loaded.isNone /\ Len(loaded.html) > 0

\* The outcome of one request: the response, the number of upstream
\* requests made, the disk when the fetch step began, the disk and the
\* clock at the end, and the calls the handler made, in order.
Served(response, fetches, atFetch, disk, now) ==
    [response |-> response, fetches |-> fetches, atFetch |-> atFetch,
     disk |-> disk, now |-> now, calls |-> <<>>]

\* served, reached after the handler made calls.
Called(calls, served) == [served EXCEPT !.calls = calls \o @]

\* The fetch step with lines 98 and 101 exchanged: the payload is parsed
\* first and stored only when a link came out of it.
fetch_step_extract_first(disk, query, resp, elapsed, now) ==
    LET arrival == now + elapsed
    IN  IF requests_get(resp) # NoException \/ raise_for_status(resp) # NoException
        THEN Called(<<"requests.get">>,
                 Served(HTTPException(500, "RequestException"), 1, disk, disk, arrival))
        ELSE
        LET result == parse_html_for_image(resp.text)
        IN  IF result.exc = NoException
            THEN Called(<<"requests.get", "parse_html_for_image", "save_to_cache">>,
                     Served(RedirectResponse(result.link), 1, disk,
                            save_to_cache(disk, query, resp.text, arrival), arrival))
            ELSE Called(<<"requests.get", "parse_html_for_image">>,
                     Served(Unhandled(result.exc), 1, disk, disk, arrival))

\* Lines 85-106: the fetch step.  elapsed is the time the upstream takes.
fetch_step(disk, query, resp, elapsed, now) ==
    LET arrival == now + elapsed
    IN  IF requests_get(resp) # NoException
        THEN Called(<<"requests.get">>,
                 IF IsRequestException(requests_get(resp))
                 THEN Served(HTTPException(500, requests_get(resp)), 1, disk, disk, arrival)
                 ELSE Served(Unhandled(requests_get(resp)), 1, disk, disk, arrival))
        ELSE IF raise_for_status(resp) # NoException
        THEN Called(<<"requests.get">>,
                 IF IsRequestException(raise_for_status(resp))
                 THEN Served(HTTPException(500, raise_for_status(resp)), 1, disk, disk, arrival)
                 ELSE Served(Unhandled(raise_for_status(resp)), 1, disk, disk, arrival))
        ELSE
        LET saved  == save_to_cache(disk, query, resp.text, arrival)
            result == parse_html_for_image(resp.text)
        IN  Called(<<"requests.get", "save_to_cache", "parse_html_for_image">>,
                IF result.exc = NoException
                THEN Served(RedirectResponse(result.link), 1, disk, saved, arrival)
                ELSE IF IsRequestException(result.exc)
                THEN Served(HTTPException(500, result.exc), 1, disk, saved, arrival)
                ELSE Served(Unhandled(result.exc), 1, disk, saved, arrival))

search_image(disk, query, resp, elapsed, now) ==
    LET cached == load_from_cache(disk, query, now)
    IN  IF cached.exc # NoException
        THEN Called(<<"load_from_cache">>,
                 Served(Unhandled(cached.exc), 0, cached.disk, cached.disk, now))
        ELSE IF Truthy(cached)
        THEN LET result == parse_html_for_image(cached.html)
             IN  Called(<<"load_from_cache", "parse_html_for_image">>,
                     IF result.exc = NoException
                     THEN Served(RedirectResponse(result.link), 0, cached.disk, cached.disk, now)
                     ELSE IF IsHTTPException(result.exc)
                     THEN fetch_step(cached.disk, query, resp, elapsed, now)
                     ELSE Served(Unhandled(result.exc), 0, cached.disk, cached.disk, now))
        ELSE Called(<<"load_from_cache">>,
                 fetch_step(cached.disk, query, resp, elapsed, now))

root == [message |-> "Welcome to BaraBild Images Search API"]

(***************************************************************************)
(* State.                                                                  *)
(*   disk   the cache directory (shared by all requests)                   *)
(*   now    the wall clock, in hours                                       *)
(*   last   the most recent completed call: its arguments, the disk it     *)
(*          found, what it returned, when it began and ended               *)
(*   put    per query, the arguments and time of the most recent           *)
(*          save_to_cache call                                             *)
(*   req    per request in flight: the line it is at and its locals        *)
(*   ext    one call of parse_html_for_image: its argument and its result  *)
(***************************************************************************)
VARIABLES disk, now, last, put, req, ext

vars == <<disk, now, last, put, req, ext>>

Requests == {"r1", "r2"}

\* A request not yet received.  seen is the content its load_from_cache read
\* (hasRead says whether it read any); pending and offset are the chunks
\* json.dump has still to write and the position of the file object;
\* unlinked says the file it has open for writing was removed meanwhile;
\* stamp is the timestamp save_to_cache put in its entry (-1 before that).
Idle ==
    [pc |-> "idle", query |-> "", text |-> <<>>, hasRead |-> FALSE,
     seen |-> <<>>, pending |-> <<>>, offset |-> 0, unlinked |-> FALSE,
     stamp |-> -1,
     response |-> [kind |-> "none", status |-> 0, url |-> "", detail |-> <<>>,
                   exc |-> NoException]]

\* A call of parse_html_for_image on html that has not run yet.
Extraction(html) == [html |-> html, called |-> FALSE, exc |-> NoException, link |-> ""]

Paths == {get_cache_path(q) : q \in Queries}

EmptyDisk == [dir |-> FALSE, files |-> <<>>]

NoResponse == [kind |-> "none", status |-> 0, url |-> "", detail |-> <<>>, exc |-> NoException]

Call(op, query, before, atFetch, resp, exc, isNone, html, response, fetches, end) ==
    [op |-> op, query |-> query, start |-> now, end |-> end, before |-> before,
     atFetch |-> atFetch, resp |-> resp, exc |-> exc, isNone |-> isNone,
     html |-> html, response |-> response, fetches |-> fetches,
     calls |-> <<>>]

NoPut == [set |-> FALSE, time |-> 0, html |-> <<>>]

\* The pages the upstream has for a query.
Pages(q) == IF q = "cats" THEN Payloads ELSE {HtmlDogs}

\* What the upstream may answer, and how long it may take to answer.
Responses(q) ==
    {Response(0, <<>>)}
        \cup (IF q = "cats" THEN {Response(503, <<>>), Response(404, HtmlNoPicture)}
              ELSE {})
        \cup {Response(200, p) : p \in Pages(q)}

Elapsed == {0, TickStep}

\* Files found in the cache directory at start-up that this program did not
\* finish writing: a write cut short, the raw page stored by the variant of
\* the service that keeps no envelope, an envelope lacking a field or with
\* an unreadable timestamp.
Leftovers ==
    { <<OpenBrace, <<"timestamp", isoformat(0)>> >>,
      << <<"<html>">> >>,
      json_dump(<< <<"html", HtmlCats>> >>),
      json_dump(<< <<"timestamp", <<0, 99>> >>, <<"html", HtmlCats>> >>),
      json_dump(<< <<"timestamp", isoformat(0)>> >>) }

Init ==
    /\ now = 0
    /\ disk \in {EmptyDisk, [dir |-> TRUE, files |-> <<>>]}
                  \cup {[dir |-> TRUE, files |-> (get_cache_path(q) :> c)] :
                            q \in {"cats"}, c \in Leftovers}
    /\ last = Call("none", "", disk, disk, Response(0, <<>>), NoException,
                   TRUE, <<>>, NoResponse, 0, now)
    /\ put = [q \in Queries |-> NoPut]
    /\ req = [r \in Requests |-> Idle]
    /\ ext = Extraction(<<>>)

Root ==
    /\ last.op # "root"
    /\ last' = Call("root", "", disk, disk, Response(0, <<>>), NoException,
                    TRUE, <<>>, NoResponse, 0, now)
    /\ UNCHANGED <<disk, now, put, req, ext>>

SaveToCache(q, p) ==
    /\ disk' = save_to_cache(disk, q, p, now)
    /\ put' = [put EXCEPT ![q] = [set |-> TRUE, time |-> now, html |-> p]]
    /\ last' = Call("save", q, disk, disk, Response(0, p), NoException,
                    TRUE, <<>>, NoResponse, 0, now)
    /\ UNCHANGED <<now, req, ext>>

LoadFromCache(q) ==
    LET r == load_from_cache(disk, q, now)
    IN  /\ disk' = r.disk
        /\ last' = Call("load", q, disk, disk, Response(0, <<>>), r.exc,
                        r.isNone, r.html, NoResponse, 0, now)
        /\ UNCHANGED <<now, put, req, ext>>

\* save_to_cache ran inside the request exactly when the upstream answered
\* with a success status.
Stored(served, resp) ==
    /\ served.fetches > 0
    /\ requests_get(resp) = NoException
    /\ raise_for_status(resp) = NoException

SearchImage(q, resp, elapsed) ==
    LET r == search_image(disk, q, resp, elapsed, now)
    IN  /\ now + elapsed <= MaxTime
        /\ disk' = r.disk
        /\ now' = r.now
        /\ put' = IF Stored(r, resp)
                  THEN [put EXCEPT ![q] = [set |-> TRUE, time |-> r.now,
                                           html |-> resp.text]]
                  ELSE put
        /\ last' = [Call("search", q, disk, r.atFetch, resp, r.response.exc,
                         TRUE, <<>>, r.response, r.fetches, r.now)
                        EXCEPT !.calls = r.calls]
        /\ UNCHANGED <<req, ext>>

Tick ==
    /\ now + TickStep <= MaxTime
    /\ now' = now + TickStep
    /\ UNCHANGED <<disk, last, put, req, ext>>

Next ==
    \/ Root
    \/ \E q \in Queries : \E p \in Pages(q) : SaveToCache(q, p)
    \/ \E q \in Queries : LoadFromCache(q)
    \/ \E q \in Queries : \E resp \in Responses(q), elapsed \in Elapsed :
           SearchImage(q, resp, elapsed)
    \/ Tick

Spec == Init /\ [][Next]_vars

TypeOK ==
    /\ now \in 0..MaxTime
    /\ disk.dir \in BOOLEAN
    /\ DOMAIN disk.files \subseteq Paths
    /\ (~disk.dir => DOMAIN disk.files = {})

(***************************************************************************)
(* Requests in flight together.  Each step below is one call of            *)
(* search_image that touches the shared directory or the network, with     *)
(* the local computation that follows it up to the next such call.         *)
(***************************************************************************)
Finish(r, response) ==
    req' = [req EXCEPT ![r].pc = "done", ![r].response = response]

Goto(r, pc) == req' = [req EXCEPT ![r].pc = pc]

\* The pages the upstream serves while requests overlap.
ConcResponses ==
    {Response(0, <<>>), Response(200, HtmlCats), Response(200, HtmlNoPicture)}

\* f.write at position offset of a file holding content: the gap a
\* truncation left before offset reads as NUL bytes.
write_at(content, offset, chunks) ==
    LET padded == IF Len(content) < offset
                  THEN content \o [i \in 1..(offset - Len(content)) |-> Nul]
                  ELSE content
        upto   == offset + Len(chunks)
    IN  SubSeq(padded, 1, offset) \o chunks
            \o (IF Len(padded) > upto
                THEN SubSeq(padded, upto + 1, Len(padded))
                ELSE <<>>)

\* Line 69: the request arrives.
Begin(r, q) ==
    /\ req[r].pc = "idle"
    /\ req' = [req EXCEPT ![r].pc = "exists", ![r].query = q]
    /\ UNCHANGED <<disk, now, last, put, ext>>

\* Line 42: os.path.exists(cache_path).
CheckExists(r) ==
    /\ req[r].pc = "exists"
    /\ IF exists(disk, get_cache_path(req[r].query))
       THEN Goto(r, "read")
       ELSE Goto(r, "fetch")
    /\ UNCHANGED <<disk, now, last, put, ext>>

\* Lines 76-83 on the value load_from_cache returned.
AfterLoad(r, html, content) ==
    IF Len(html) > 0
    THEN LET result == parse_html_for_image(html)
         IN  req' = [req EXCEPT
                 ![r].pc = "done", ![r].hasRead = TRUE, ![r].seen = content,
                 ![r].response = IF result.exc = NoException
                                 THEN RedirectResponse(result.link)
                                 ELSE Unhandled(result.exc)]
    ELSE req' = [req EXCEPT ![r].pc = "fetch", ![r].hasRead = TRUE,
                            ![r].seen = content]

\* Lines 45-54: open the file, json.load it, compare its age.
ReadEntry(r) ==
    LET cache_path == get_cache_path(req[r].query)
    IN  /\ req[r].pc = "read"
        /\ IF ~exists(disk, cache_path)
           THEN Finish(r, Unhandled("FileNotFoundError"))
           ELSE LET content == disk.files[cache_path]
                    entry   == read_entry(content, now)
                IN  IF entry.exc # NoException
                    THEN req' = [req EXCEPT
                             ![r].pc = "done", ![r].hasRead = TRUE,
                             ![r].seen = content,
                             ![r].response = Unhandled(entry.exc)]
                    ELSE IF entry.expired
                    THEN req' = [req EXCEPT ![r].pc = "remove",
                                            ![r].hasRead = TRUE,
                                            ![r].seen = content]
                    ELSE AfterLoad(r, entry.html, content)
        /\ UNCHANGED <<disk, now, last, put, ext>>

\* Line 51: os.remove(cache_path).  A request that has the file open for
\* writing goes on writing to the removed file.
RemoveEntry(r) ==
    LET cache_path == get_cache_path(req[r].query)
    IN  /\ req[r].pc = "remove"
        /\ IF ~exists(disk, cache_path)
           THEN /\ Finish(r, Unhandled("FileNotFoundError"))
                /\ UNCHANGED disk
           ELSE /\ disk' = remove_file(disk, cache_path)
                /\ req' = [o \in Requests |->
                             IF o = r THEN [req[o] EXCEPT !.pc = "fetch"]
                             ELSE IF /\ req[o].pc = "dump"
                                     /\ get_cache_path(req[o].query) = cache_path
                                  THEN [req[o] EXCEPT !.unlinked = TRUE]
                                  ELSE req[o]]
        /\ UNCHANGED <<now, last, put, ext>>

\* Lines 94-95 and 105-106: the upstream answers.
Fetch(r, resp) ==
    /\ req[r].pc = "fetch"
    /\ IF requests_get(resp) # NoException
       THEN Finish(r, HTTPException(500, requests_get(resp)))
       ELSE IF raise_for_status(resp) # NoException
       THEN Finish(r, HTTPException(500, raise_for_status(resp)))
       ELSE req' = [req EXCEPT ![r].pc = "ensure", ![r].text = resp.text]
    /\ UNCHANGED <<disk, now, last, put, ext>>

\* Line 19: os.path.exists(CACHE_DIR).
EnsureDir(r) ==
    /\ req[r].pc = "ensure"
    /\ IF ~disk.dir THEN Goto(r, "makedirs") ELSE Goto(r, "open")
    /\ UNCHANGED <<disk, now, last, put, ext>>

\* Line 20: os.makedirs(CACHE_DIR), which raises when the directory exists.
MakeDirs(r) ==
    /\ req[r].pc = "makedirs"
    /\ IF disk.dir
       THEN /\ Finish(r, Unhandled("FileExistsError"))
            /\ UNCHANGED disk
       ELSE /\ disk' = [disk EXCEPT !.dir = TRUE]
            /\ Goto(r, "open")
    /\ UNCHANGED <<now, last, put, ext>>

\* Lines 31-36: stamp the entry and open the file for writing, which
\* creates it or truncates it.
OpenWrite(r) ==
    /\ req[r].pc = "open"
    /\ disk' = write_file(disk, get_cache_path(req[r].query), <<>>)
    /\ req' = [req EXCEPT ![r].pc = "dump", ![r].offset = 0,
                          ![r].unlinked = FALSE, ![r].stamp = now,
                          ![r].pending = json_dump(cache_data(now, req[r].text))]
    /\ UNCHANGED <<now, last, put, ext>>

\* Lines 101-103 once the file is closed.
AfterSave(r) ==
    LET result == parse_html_for_image(req[r].text)
    IN  IF result.exc = NoException
        THEN RedirectResponse(result.link)
        ELSE Unhandled(result.exc)

\* Line 37: the buffer is flushed to the file, k chunks of it; the last
\* flush is the one that closes the file.
Flush(r, k) ==
    LET cache_path == get_cache_path(req[r].query)
        chunks     == SubSeq(req[r].pending, 1, k)
        rest       == SubSeq(req[r].pending, k + 1, Len(req[r].pending))
    IN  /\ req[r].pc = "dump"
        /\ k \in 1..Len(req[r].pending)
        /\ disk' = IF req[r].unlinked
                   THEN disk
                   ELSE write_file(disk, cache_path,
                            write_at(disk.files[cache_path], req[r].offset, chunks))
        /\ req' = [req EXCEPT
               ![r].pending = rest,
               ![r].offset = req[r].offset + k,
               ![r].pc = IF rest = <<>> THEN "done" ELSE "dump",
               ![r].response = IF rest = <<>> THEN AfterSave(r) ELSE req[r].response]
        /\ UNCHANGED <<now, last, put, ext>>

ConcTick ==
    /\ now + TickStep <= MaxTime
    /\ now' = now + TickStep
    /\ UNCHANGED <<disk, last, put, req, ext>>

\* The directory the requests find: absent, or holding an entry for "cats"
\* written at time 0.
ConcInit ==
    /\ now = 0
    /\ disk \in {EmptyDisk,
                 save_to_cache(EmptyDisk, "cats", HtmlCats, 0)}
    /\ last = Call("none", "", disk, disk, Response(0, <<>>), NoException,
                   TRUE, <<>>, NoResponse, 0, now)
    /\ put = [q \in Queries |-> NoPut]
    /\ req = [r \in Requests |-> Idle]
    /\ ext = Extraction(<<>>)

ConcNext ==
    \/ \E r \in Requests, q \in Queries : Begin(r, q)
    \/ \E r \in Requests : CheckExists(r)
    \/ \E r \in Requests : ReadEntry(r)
    \/ \E r \in Requests : RemoveEntry(r)
    \/ \E r \in Requests, resp \in ConcResponses : Fetch(r, resp)
    \/ \E r \in Requests : EnsureDir(r)
    \/ \E r \in Requests : MakeDirs(r)
    \/ \E r \in Requests : OpenWrite(r)
    \/ \E r \in Requests : \E k \in 1..Len(req[r].pending) : Flush(r, k)
    \/ ConcTick

ConcSpec == ConcInit /\ [][ConcNext]_vars


(***************************************************************************)
(* Progress.  requests.get is called without a timeout (line 94), so when  *)
(* the upstream never answers the call never returns: the request stays    *)
(* blocked and no later step of it exists.  Every other step of a request  *)
(* is taken once it is possible.                                           *)
(***************************************************************************)
Hang(r) ==
    /\ req[r].pc = "fetch"
    /\ Goto(r, "blocked")
    /\ UNCHANGED <<disk, now, last, put, ext>>

Step(r) ==
    \/ CheckExists(r)
    \/ ReadEntry(r)
    \/ RemoveEntry(r)
    \/ \E resp \in ConcResponses : Fetch(r, resp)
    \/ Hang(r)
    \/ EnsureDir(r)
    \/ MakeDirs(r)
    \/ OpenWrite(r)
    \/ \E k \in 1..Len(req[r].pending) : Flush(r, k)

LiveNext ==
    \/ \E r \in Requests, q \in Queries : Begin(r, q)
    \/ \E r \in Requests : Step(r)
    \/ ConcTick

LiveSpec ==
    ConcInit /\ [][LiveNext]_vars /\ \A r \in Requests : WF_vars(Step(r))


(***************************************************************************)
(* parse_html_for_image on its own: the documents of at most MaxElems      *)
(* elements, each a div or a picture with at most MaxImgs img elements.    *)
(***************************************************************************)
MaxElems == 2

MaxImgs == 1

SeqsUpTo(S, n) == UNION {[1..k -> S] : k \in 0..n}

ImgKinds ==
    { Img({<<"alt", "a">>}),
      Img({<<"src", "">>}),
      Img({<<"src", "https://img/a.jpg">>}),
      Img({<<"alt", "a">>, <<"src", "https://img/b.jpg">>}) }

ElemKinds == {Elem(tag, imgs) : tag \in {"div", "picture"},
                                imgs \in SeqsUpTo(ImgKinds, MaxImgs)}

Documents == SeqsUpTo(ElemKinds, MaxElems)

ExtractInit ==
    /\ now = 0
    /\ disk = EmptyDisk
    /\ last = Call("none", "", disk, disk, Response(0, <<>>), NoException,
                   TRUE, <<>>, NoResponse, 0, now)
    /\ put = [q \in Queries |-> NoPut]
    /\ req = [r \in Requests |-> Idle]
    /\ ext \in {Extraction(html) : html \in Documents}

Extract ==
    /\ ~ext.called
    /\ LET result == parse_html_for_image(ext.html)
       IN  ext' = [ext EXCEPT !.called = TRUE, !.exc = result.exc,
                              !.link = result.link]
    /\ UNCHANGED <<disk, now, last, put, req>>

ExtractNext == Extract

ExtractSpec == ExtractInit /\ [][ExtractNext]_vars


(***************************************************************************)
(* Vocabulary of the properties.                                           *)
(***************************************************************************)
Holds(d, q) == exists(d, get_cache_path(q))

EntryOf(d, q) == d.files[get_cache_path(q)]

\* d holds for q a complete entry: an object with a readable timestamp and
\* a payload.
WellFormed(d, q) ==
    /\ Holds(d, q)
    /\ json_load(EntryOf(d, q)).exc = NoException
    /\ HasKey(json_load(EntryOf(d, q)).items, "timestamp")
    /\ HasKey(json_load(EntryOf(d, q)).items, "html")
    /\ fromisoformat(GetKey(json_load(EntryOf(d, q)).items, "timestamp")).exc
           = NoException

EntryTime(d, q) ==
    fromisoformat(GetKey(json_load(EntryOf(d, q)).items, "timestamp")).time

EntryHtml(d, q) == GetKey(json_load(EntryOf(d, q)).items, "html")

HoldsEntry(d, q, t, p) ==
    WellFormed(d, q) /\ EntryTime(d, q) = t /\ EntryHtml(d, q) = p

Extracts(p) == parse_html_for_image(p).exc = NoException

UrlOf(p) == parse_html_for_image(p).link

\* The upstream answered, with a status that is not an error status.
FetchSucceeds(resp) == resp.status >= 200 /\ resp.status < 400

Resolved(url) == last.response = RedirectResponse(url)

Searched(q) == last.op = "search" /\ last.query = q

LoadedQ(q) == last.op = "load" /\ last.query = q

\* C1: a request whose lookup finds an entry for q no older than the expiry
\* window, with a payload that extracts to u, is redirected to u, makes no
\* upstream request and leaves the entry for q as it was.
C1_FreshHitResolves ==
    \A q \in Queries :
        ( /\ Searched(q)
          /\ WellFormed(last.before, q)
          /\ last.start - EntryTime(last.before, q) <= CACHE_EXPIRY
          /\ Extracts(EntryHtml(last.before, q)) )
        => /\ Resolved(UrlOf(EntryHtml(last.before, q)))
           /\ last.fetches = 0
           /\ Holds(disk, q)
           /\ EntryOf(disk, q) = EntryOf(last.before, q)

C1_Witness ==
    /\ Searched("cats")
    /\ HoldsEntry(last.before, "cats", TickStep, HtmlCats)
    /\ last.start - TickStep = CACHE_EXPIRY
    /\ last.resp.status = 200
    /\ Resolved("https://img/cats1.jpg")

\* C2: a request that finds no entry for q and whose fetch succeeds with a
\* payload p that extracts to u is redirected to u, and afterwards the cache
\* holds an entry for q whose payload is exactly p.
C2_MissFetchStores ==
    \A q \in Queries :
        ( /\ Searched(q)
          /\ ~Holds(last.before, q)
          /\ FetchSucceeds(last.resp)
          /\ Extracts(last.resp.text) )
        => /\ Resolved(UrlOf(last.resp.text))
           /\ WellFormed(disk, q)
           /\ EntryHtml(disk, q) = last.resp.text

C2_Witness ==
    /\ Searched("cats")
    /\ ~last.before.dir
    /\ last.resp = Response(200, HtmlCats)
    /\ Resolved("https://img/cats1.jpg")
    /\ HoldsEntry(disk, "cats", last.end, HtmlCats)

\* C3: load_from_cache(q) after save_to_cache(q, p), with no more than the
\* expiry window between them, returns exactly p.
C3_RoundTrip ==
    \A q \in Queries :
        ( /\ LoadedQ(q)
          /\ put[q].set
          /\ last.start - put[q].time <= CACHE_EXPIRY )
        => /\ last.exc = NoException
           /\ ~last.isNone
           /\ last.html = put[q].html

C3_Witness ==
    /\ LoadedQ("cats")
    /\ put["cats"].set
    /\ put["dogs"].set
    /\ put["dogs"].time > put["cats"].time
    /\ put["cats"].time > 0
    /\ last.start > put["cats"].time
    /\ last.html = HtmlCats

\* C4: once more than the expiry window has passed since save_to_cache(q, p),
\* load_from_cache(q) returns None without raising and the file for q is
\* gone afterwards; this holds for the first such load and for every later one.
C4_ExpiryEviction ==
    \A q \in Queries :
        ( /\ LoadedQ(q)
          /\ put[q].set
          /\ last.start - put[q].time > CACHE_EXPIRY )
        => /\ last.exc = NoException
           /\ last.isNone
           /\ ~Holds(disk, q)

\* A load after expiry that finds the file already removed by an earlier one.
C4_Witness ==
    /\ LoadedQ("cats")
    /\ put["cats"].set
    /\ last.start - put["cats"].time > CACHE_EXPIRY
    /\ last.before.dir
    /\ ~Holds(last.before, "cats")
    /\ last.isNone

\* The first load after expiry: it found the entry and removed it.
C4_WitnessFirst ==
    /\ LoadedQ("cats")
    /\ put["cats"].set
    /\ last.start - put["cats"].time > CACHE_EXPIRY
    /\ HoldsEntry(last.before, "cats", put["cats"].time, put["cats"].html)
    /\ ~Holds(disk, "cats")

\* C5: a request that finds for q an entry older than the expiry window makes
\* one upstream request, is never redirected on the strength of the old
\* entry, and when the fetch succeeds with payload p the entry for q then
\* holds p stamped with the time of the write.
C5_ExpiredRefetches ==
    \A q \in Queries :
        ( /\ Searched(q)
          /\ WellFormed(last.before, q)
          /\ last.start - EntryTime(last.before, q) > CACHE_EXPIRY )
        => /\ last.fetches = 1
           /\ ~Holds(last.atFetch, q)
           /\ (last.response.kind = "RedirectResponse"
                  => FetchSucceeds(last.resp) /\ Resolved(UrlOf(last.resp.text)))
           /\ (FetchSucceeds(last.resp)
                  => HoldsEntry(disk, q, last.end, last.resp.text))

C5_Witness ==
    /\ Searched("cats")
    /\ HoldsEntry(last.before, "cats", 0, HtmlCats)
    /\ last.start > CACHE_EXPIRY
    /\ last.end > last.start
    /\ last.resp = Response(200, HtmlDogs)
    /\ HoldsEntry(disk, "cats", last.end, HtmlDogs)
    /\ Resolved("https://img/dogs1.jpg")

\* C6: a request that finds for q an entry within the expiry window whose
\* payload fails extraction goes on to make its one upstream request, with
\* the entry still in place when the fetch begins.
C6_UnextractableHitFallsThrough ==
    \A q \in Queries :
        ( /\ Searched(q)
          /\ WellFormed(last.before, q)
          /\ last.start - EntryTime(last.before, q) <= CACHE_EXPIRY
          /\ ~Extracts(EntryHtml(last.before, q)) )
        => /\ last.fetches = 1
           /\ Holds(last.atFetch, q)
           /\ EntryOf(last.atFetch, q) = EntryOf(last.before, q)

\* C7: when the file stored for q is not a complete entry, load_from_cache(q)
\* returns None without raising and search_image(q) goes on to the fetch.
C7_CorruptEntryAbsorbed ==
    \A q \in Queries :
        /\ ( LoadedQ(q) /\ Holds(last.before, q) /\ ~WellFormed(last.before, q) )
           => (last.exc = NoException /\ last.isNone)
        /\ ( Searched(q) /\ Holds(last.before, q) /\ ~WellFormed(last.before, q) )
           => (last.exc = NoException /\ last.fetches = 1)

\* C8: a request that reaches the fetch step and whose fetch fails (no
\* response, or an error status) ends with HTTP 500 carrying the error, and
\* the cache directory is as it was when the fetch began.
C8_FetchFailureNoWrite ==
    \A q \in Queries :
        ( /\ Searched(q)
          /\ last.fetches = 1
          /\ ~FetchSucceeds(last.resp) )
        => /\ last.response.kind = "HTTPException"
           /\ last.response.status = 500
           /\ last.response.detail =
                  <<"Error fetching image",
                    IF last.resp.status = 0 THEN "ConnectionError" ELSE "HTTPError">>
           /\ disk = last.atFetch

C8_Witness ==
    /\ Searched("cats")
    /\ last.fetches = 1
    /\ last.resp.status = 503
    /\ WellFormed(last.before, "cats")
    /\ WellFormed(last.before, "dogs")
    /\ Holds(last.atFetch, "cats")
    /\ last.response.kind = "HTTPException"

\* C9: a request whose fetch succeeds with a payload that fails extraction
\* ends with a handled error response that is not the fetch error.
C9_FreshExtractFailureHandled ==
    \A q \in Queries :
        ( /\ Searched(q)
          /\ last.fetches = 1
          /\ FetchSucceeds(last.resp)
          /\ ~Extracts(last.resp.text) )
        => /\ last.response.kind = "HTTPException"
           /\ last.response.detail[1] # "Error fetching image"

\* The content is one complete entry: an object with a timestamp and a payload.
Complete(content) ==
    /\ json_load(content).exc = NoException
    /\ HasKey(json_load(content).items, "timestamp")
    /\ HasKey(json_load(content).items, "html")

\* C10: whatever a request's load_from_cache reads from the file of its
\* query while another request is writing that file is a complete entry,
\* never an empty or partly written one.
C10_ReaderSeesCompleteEntry ==
    \A r \in Requests : req[r].hasRead => Complete(req[r].seen)

\* C11: every request makes at most one upstream request, and makes exactly
\* one when it cannot be answered from the cache: no entry for q, an entry
\* older than the expiry window, or an entry whose payload fails extraction.
C11_OneFetchPerMiss ==
    \A q \in Queries :
        Searched(q) =>
            /\ last.fetches <= 1
            /\ ( \/ ~Holds(last.before, q)
                 \/ /\ WellFormed(last.before, q)
                    /\ last.start - EntryTime(last.before, q) > CACHE_EXPIRY
                 \/ /\ WellFormed(last.before, q)
                    /\ last.start - EntryTime(last.before, q) <= CACHE_EXPIRY
                    /\ ~Extracts(EntryHtml(last.before, q)) )
               => last.fetches = 1

\* The half of C11 the code keeps: never more than one upstream request.
C11_AtMostOneFetch == last.fetches <= 1

\* C12: every request that has arrived eventually ends with a response,
\* also when the upstream never answers.
C12_EveryRequestEnds ==
    \A r \in Requests : (req[r].pc # "idle") ~> (req[r].pc = "done")

\* What stands in the way: a request blocked in requests.get has no step left.
C12_BlockedIsStuck ==
    \A r \in Requests : req[r].pc = "blocked" => ~ENABLED Step(r)

\* The first picture of a document, and whether its first img carries a src.
FirstPicture(html) == html[CHOOSE i \in 1..Len(html) :
                              /\ html[i].tag = "picture"
                              /\ \A j \in 1..(i - 1) : html[j].tag # "picture"]

HasEmbeddedUrl(html) ==
    /\ \E i \in 1..Len(html) : html[i].tag = "picture"
    /\ Len(FirstPicture(html).imgs) > 0
    /\ \E a \in FirstPicture(html).imgs[1].attrs : a[1] = "src"

EmbeddedUrl(html) ==
    (CHOOSE a \in FirstPicture(html).imgs[1].attrs : a[1] = "src")[2]

\* The exceptions by which the extractor reports a missing element.
ExtractErrors == {"ExtractError", "IndexError", "TypeError", "KeyError"}

\* C13: on every document parse_html_for_image either returns the embedded
\* URL, which is not the empty string, or fails with an extraction error.
C13_ExtractTotal ==
    ext.called =>
        \/ /\ ext.exc = NoException
           /\ ext.link # ""
           /\ HasEmbeddedUrl(ext.html)
           /\ ext.link = EmbeddedUrl(ext.html)
        \/ ext.exc \in ExtractErrors

\* What the code keeps of C13: a returned value is the src of the first img
\* of the first picture, and a document without one raises.
C13_ReturnsEmbeddedUrl ==
    ext.called =>
        IF HasEmbeddedUrl(ext.html)
        THEN ext.exc = NoException /\ ext.link = EmbeddedUrl(ext.html)
        ELSE ext.exc \in ExtractErrors

\* Request r has run save_to_cache to its end: it stamped an entry, wrote
\* all of it and closed the file.
Saved(r) == req[r].pc = "done" /\ req[r].stamp >= 0

\* C14: once two requests have both saved a payload for the same query, the
\* cache holds for it exactly the entry one of them wrote, timestamp and
\* payload, and never a mixture of the two or a malformed entry.
C14_ConcurrentSavesLeaveOneEntry ==
    \A r1, r2 \in Requests :
        ( /\ r1 # r2
          /\ Saved(r1) /\ Saved(r2)
          /\ req[r1].query = req[r2].query )
        => \E r \in {r1, r2} :
               HoldsEntry(disk, req[r].query, req[r].stamp, req[r].text)

\* The handler called a right before b.
CalledNext(a, b) ==
    \E i \in 1..(Len(last.calls) - 1) : last.calls[i] = a /\ last.calls[i + 1] = b

\* C15: on every successful fetch the payload is stored before the extractor
\* runs on it, and the cache holds the fetched payload for q after the
\* request whether the extraction succeeded or failed.
C15_PersistBeforeExtract ==
    \A q \in Queries :
        ( /\ Searched(q)
          /\ last.fetches = 1
          /\ FetchSucceeds(last.resp) )
        => /\ CalledNext("save_to_cache", "parse_html_for_image")
           /\ last.calls[Len(last.calls)] = "parse_html_for_image"
           /\ HoldsEntry(disk, q, last.end, last.resp.text)

C15_Witness ==
    /\ Searched("cats")
    /\ ~Holds(last.before, "cats")
    /\ last.resp = Response(200, HtmlNoPicture)
    /\ last.response.kind = "Unhandled"
    /\ HoldsEntry(disk, "cats", last.end, HtmlNoPicture)

\* What the lookup of request last returned.
Lookup == load_from_cache(last.before, last.query, last.start)

Present == Lookup.exc = NoException /\ ~Lookup.isNone

Absent == Lookup.exc = NoException /\ Lookup.isNone

ExtractsCachedFirst ==
    /\ Len(last.calls) >= 2
    /\ last.calls[2] = "parse_html_for_image"
    /\ \A i \in 1..2 : last.calls[i] # "requests.get"

GoesDirectlyToFetch ==
    /\ Len(last.calls) >= 2
    /\ last.calls[2] = "requests.get"

\* C16: whenever the lookup returns a present entry, whatever its payload,
\* the empty payload included, the request runs the extractor on the cached
\* payload before any fetch, and it goes directly to the fetch step only
\* when the lookup returned Absent.
C16_PresentEntryExtractedFirst ==
    \A q \in Queries :
        Searched(q) =>
            /\ Present => ExtractsCachedFirst
            /\ GoesDirectlyToFetch => Absent

\* C16 as the code has it: the extractor runs on the cached payload exactly
\* when the lookup returned a non-empty payload; a lookup that returned
\* Absent or the empty payload goes directly to the fetch step.
C16_NonEmptyEntryExtractedFirst ==
    \A q \in Queries :
        Searched(q) =>
            /\ (Present /\ Lookup.html # <<>>) => ExtractsCachedFirst
            /\ (Present /\ Lookup.html = <<>>) => GoesDirectlyToFetch
            /\ Absent => GoesDirectlyToFetch
            /\ GoesDirectlyToFetch => (Absent \/ Lookup.html = <<>>)

C16_Witness ==
    /\ Searched("cats")
    /\ HoldsEntry(last.before, "cats", 0, HtmlEmpty)
    /\ Present
    /\ GoesDirectlyToFetch
    /\ last.resp = Response(200, HtmlCats)
    /\ Resolved("https://img/cats1.jpg")

\* d holds for q a file with a readable timestamp.
Timed(d, q) ==
    /\ Holds(d, q)
    /\ json_load(EntryOf(d, q)).exc = NoException
    /\ HasKey(json_load(EntryOf(d, q)).items, "timestamp")
    /\ fromisoformat(GetKey(json_load(EntryOf(d, q)).items, "timestamp")).exc
           = NoException

\* d2 is d1 with the file of q removed and nothing else changed.
OnlyRemoved(d1, d2, q) ==
    /\ d2.dir = d1.dir
    /\ get_cache_path(q) \in DOMAIN d1.files
    /\ DOMAIN d2.files = DOMAIN d1.files \ {get_cache_path(q)}
    /\ \A path \in DOMAIN d2.files : d2.files[path] = d1.files[path]

\* C17: load_from_cache(q) on an entry whose age does not exceed the expiry
\* window, the age equal to the window included, returns the stored payload
\* and leaves the directory as it was; and whenever load_from_cache changes
\* the directory, the change is the removal of the file for q, whose age
\* exceeded the window.
C17_FreshLoadLeavesStore ==
    \A q \in Queries :
        LoadedQ(q) =>
            /\ ( /\ WellFormed(last.before, q)
                 /\ last.start - EntryTime(last.before, q) <= CACHE_EXPIRY )
               => /\ last.exc = NoException
                  /\ ~last.isNone
                  /\ last.html = EntryHtml(last.before, q)
                  /\ disk = last.before
            /\ disk # last.before
               => /\ OnlyRemoved(last.before, disk, q)
                  /\ Timed(last.before, q)
                  /\ last.start - EntryTime(last.before, q) > CACHE_EXPIRY

\* A load of an entry whose age is exactly the window.
C17_Witness ==
    /\ LoadedQ("cats")
    /\ HoldsEntry(last.before, "cats", TickStep, HtmlCats)
    /\ last.start - TickStep = CACHE_EXPIRY
    /\ last.html = HtmlCats
    /\ disk = last.before

\* d2 has for q what d1 has: no file, or the same file.
SameEntry(d1, d2, q) ==
    /\ Holds(d1, q) <=> Holds(d2, q)
    /\ Holds(d1, q) => EntryOf(d1, q) = EntryOf(d2, q)

\* C18: distinct queries address distinct entries, and load_from_cache(q),
\* save_to_cache(q, p) and search_image(q) leave the entry of every other
\* query as it was: not created, not changed, not deleted.
C18_KeyIsolation ==
    \A q \in Queries, other \in Queries :
        q # other =>
            /\ get_cache_path(q) # get_cache_path(other)
            /\ ( /\ last.op \in {"load", "save", "search"}
                 /\ last.query = q )
               => /\ last.before.dir => SameEntry(last.before, disk, other)
                  /\ ~last.before.dir => ~Holds(disk, other)

\* A request for "cats" that replaced the expired entry of "cats" beside a
\* stored entry of "dogs".
C18_Witness ==
    /\ Searched("cats")
    /\ WellFormed(last.before, "cats")
    /\ last.start - EntryTime(last.before, "cats") > CACHE_EXPIRY
    /\ HoldsEntry(disk, "cats", last.end, HtmlCats)
    /\ WellFormed(last.before, "dogs")
    /\ EntryOf(disk, "dogs") = EntryOf(last.before, "dogs")

\* C18 for requests in flight together: a step that creates, changes or
\* deletes the file of a query is a step of a request for that query.
C18_InterleavedIsolation ==
    [][\A q \in Queries :
          ( \/ (get_cache_path(q) \in DOMAIN disk.files)
                   # (get_cache_path(q) \in DOMAIN disk'.files)
            \/ /\ get_cache_path(q) \in DOMAIN disk.files
               /\ get_cache_path(q) \in DOMAIN disk'.files
               /\ disk.files[get_cache_path(q)] # disk'.files[get_cache_path(q)] )
          => \E r \in Requests : req[r].query = q /\ req'[r] # req[r]]_vars

\* C19: save_to_cache completes without error whether or not the cache
\* directory exists, also for first writes of requests in flight together:
\* no request ends with the error of creating a directory that exists.
C19_DirInitNeverFails ==
    \A r \in Requests : req[r].response.exc # "FileExistsError"

\* What holds of C19 when one request runs at a time: save_to_cache creates
\* the directory when it is absent and its entry is there afterwards.
C19_SequentialSaveSucceeds ==
    \A q \in Queries :
        (last.op = "save" /\ last.query = q)
        => /\ last.exc = NoException
           /\ disk.dir
           /\ HoldsEntry(disk, q, last.end, last.resp.text)

\* C20: of two requests that load the same expired entry together, none
\* ends with an error for a file that is no longer there.
C20_ConcurrentExpiredLoads ==
    \A r \in Requests : req[r].response.exc # "FileNotFoundError"

\* The other half of C20: once every request that saw the expired entry has
\* moved past its removal, the entry it saw is gone.
C20_ExpiredEntryGone ==
    \A r \in Requests :
        ( /\ req[r].hasRead
          /\ req[r].pc \in {"fetch", "ensure", "makedirs"}
          /\ read_entry(req[r].seen, now).exc = NoException
          /\ read_entry(req[r].seen, now).expired )
        => \/ ~Holds(disk, req[r].query)
           \/ EntryOf(disk, req[r].query) # req[r].seen

====
